---- MODULE Spec2Model ----
(***************************************************************************)
(* Model of DataLoggerMqttSubTopics.ino: an Arduino sketch that joins a    *)
(* WiFi network, sets the realtime clock from network time, connects to an *)
(* MQTT broker and, once per send interval, reads a light sensor and       *)
(* publishes seven fields to subtopics of "light-readings".                *)
(*                                                                         *)
(* The sketch is one thread of control: setup() once, then loop() for      *)
(* ever.  pc is the position of that thread.  The environment (the radio   *)
(* link, the broker connection, the running clock) changes between the     *)
(* steps of the thread: LinkDrop, BrokerDrop and Tick.                     *)
(*                                                                         *)
(* Epochs are seconds since 1970, as in the sketch; the model keeps them   *)
(* small (around one hour) so that the minute-of-hour counter wraps.       *)
(***************************************************************************)
EXTENDS Integers, Sequences, FiniteSets, TLC

VARIABLES
    pc,            \* position of the single thread of control
    wifiUp,        \* WiFi.status() == WL_CONNECTED
    mqttUp,        \* mqttClient.connected()
    will,          \* the will registered with mqttClient (NoWill before)
    clock,         \* rtc epoch, seconds
    epoch,         \* local variable epoch of connectToNetwork
    startTime,     \* unsigned long startTime
    lastSendTime,  \* long lastSendTime
    sendInterval,  \* int sendInterval
    readingCount,  \* unsigned long readingCount
    pubIdx,        \* readSensor: index of the next field to send (0 outside)
    absPos,        \* loop(): what the test (x)>0 of abs gave (FALSE outside)
    it,            \* history: what the current loop() iteration has done
    net,           \* history: what the current connectToNetwork() call has done
    hist,          \* history: counts since boot
    scen,          \* history: the gate observations since boot, against <<0,0,1,2>>
    mac,           \* the hardware address WiFi.macAddress() delivers, mac[0..5]
    addressString, \* String addressString
    sens,          \* readSensor: its locals lux and colorTemp
    lastMsg,       \* history: the last message handed to mqttClient (at: the
                   \* clock when an uptime was sent)
    faultsLeft     \* environment: failures it may still cause (Unbounded: any)

vars == <<pc, wifiUp, mqttUp, will, clock, epoch, startTime, lastSendTime,
          sendInterval, readingCount, pubIdx, absPos, it, net, hist, scen,
          mac, addressString, sens, lastMsg,
          faultsLeft>>

(***************************************************************************)
(* Bounds of the model                                                     *)
(***************************************************************************)
\* loop() is not entered again once this many readings were taken
MaxReadings == 2
\* the running clock is not advanced beyond this epoch
MaxEpoch == 3720
\* failures of the environment in a run that has finitely many of them
MaxFaults == 2

(***************************************************************************)
(* Constants of the program and of its libraries                           *)
(***************************************************************************)
\* int sendInterval = 1;
SendIntervalInit == 1
\* rtc.begin(): the clock at boot (minute 0, second 0 of an hour)
RtcBootEpoch == 3600
\* rtc.getMinutes() counts 0..59
MinutesPerHour == 60
SecondsPerMinute == 60
\* readSensor sends seven fields
NumFields == 7
\* byte mac[6]
MacLen == 6
\* an unsigned long is 32 bits: two halves of 16 bits, each below 65536
Half == 65536
\* String(mac[i], HEX) and the padding test mac[i] < 16
HexBase == 16
\* String(unsigned long) is decimal
DecBase == 10

\* char topic[] and const char location[]
BaseTopic == "light-readings"
Location == "home"
\* the subtopics of readSensor, in the order of its sendMessage calls
FieldNames == <<"uid", "location", "timeStamp", "lux", "ct", "uptime",
                "readingCount">>

\* bytes a hardware address is drawn from: both sides of the padding test
MacBytes == {0, 9, 15, 16, 171, 255}
\* every address over MacBytes, mac[0] .. mac[5]
AllMacs == [0 .. MacLen - 1 -> MacBytes]
\* the address of the device whose whole run is explored
RunMacs == {[i \in 0 .. MacLen - 1 |-> <<0, 15, 16, 255, 171, 9>>[i + 1]]}

\* what tcs delivers: lux and colour temperature of a reading
SensorReadings == {[lux |-> 100, ct |-> 4000], [lux |-> 0, ct |-> 0]}
NoReading == [lux |-> 0, ct |-> 0]

\* the will registered in setup()
WillMessage == [topic |-> "light-readings/will", payload |-> "sensor died",
                retain |-> TRUE, qos |-> 1]

\* mqttClient before beginWill: no will topic, no payload
NoWill == [topic |-> "", payload |-> "", retain |-> FALSE, qos |-> 0]

\* epochs WiFi.getTime() can deliver when it succeeds: minute 59 and minute 0
NetEpochs == {3540, 3600}
\* faultsLeft when the environment may fail any number of times
Unbounded == -1

\* seconds that can pass between two steps of the thread: the clock is
\* followed minute by minute
TickSecs == {60}

(***************************************************************************)
(* Pure helpers                                                            *)
(***************************************************************************)
\* rtc.getMinutes(): minute of the hour of the clock
Minutes(e) == (e \div SecondsPerMinute) % MinutesPerHour

\* abs(x) is the macro ((x)>0?(x):-(x)): it evaluates x for the test and
\* once more for the value
AbsTest(x) == x > 0
AbsValue(pos, x) == IF pos THEN x ELSE -x
\* abs of an argument that gives the same value both times
Abs(x) == AbsValue(AbsTest(x), x)

\* if (abs(rtc.getMinutes() - lastSendTime) >= sendInterval), pos being the
\* outcome of the macro's test and m the minute read for its value
IntervalElapsedStrict(pos, m, last, interval) ==
    AbsValue(pos, m - last) > interval
IntervalElapsed(pos, m, last, interval) ==
    AbsValue(pos, m - last) >= interval

\* String(n, HEX): lower-case hexadecimal digits, no leading zero
HexDigit == <<"0", "1", "2", "3", "4", "5", "6", "7", "8", "9",
              "a", "b", "c", "d", "e", "f">>
RECURSIVE StringHex(_)
StringHex(n) ==
    IF n < HexBase THEN HexDigit[n + 1]
    ELSE StringHex(n \div HexBase) \o HexDigit[(n % HexBase) + 1]

\* setup(): if (mac[i] < 16) addressString += "0";
NoPadding(b) == ""
ZeroPadding(b) == IF b < HexBase THEN "0" ELSE ""

\* setup(): for (int i = 5; i >= 0; i--) { ... addressString += ... }
RECURSIVE AddressLoop(_, _, _)
AddressLoop(m, i, acc) ==
    IF i < 0 THEN acc
    ELSE AddressLoop(m, i - 1, acc \o ZeroPadding(m[i]) \o StringHex(m[i]))

\* an unsigned long as its two 16-bit halves
U32(n) == [hi |-> n \div Half, lo |-> n % Half]

\* a - b on unsigned long, for a and b below 2^31: it wraps to 2^32 - (b - a)
USub(a, b) ==
    IF a >= b THEN U32(a - b)
    ELSE LET d == b - a
         IN [hi |-> (Half - 1) - ((d - 1) \div Half),
             lo |-> (Half - 1) - ((d - 1) % Half)]

\* String(unsigned long): decimal digits, no leading zero; the number is
\* hi * Half + lo, divided by ten digit by digit
DecDigit == <<"0", "1", "2", "3", "4", "5", "6", "7", "8", "9">>
RECURSIVE DecString(_, _)
DecString(hi, lo) ==
    IF hi = 0 /\ lo < DecBase THEN DecDigit[lo + 1]
    ELSE DecString(hi \div DecBase, ((hi % DecBase) * Half + lo) \div DecBase)
            \o DecDigit[(((hi % DecBase) * Half + lo) % DecBase) + 1]
StringU32(u) == DecString(u.hi, u.lo)

\* sendMessage: String thisTopic = String(topic) + "/"; thisTopic += subTopic;
TopicWithoutSeparator(sub) == BaseTopic \o sub
TopicOf(sub) == BaseTopic \o "/" \o sub

\* readSensor: String(rtc.getEpoch() - startTime)
UptimeOf(now, start) == USub(now, start)

\* readSensor: String(readingCount), sent before loop() increments it
PublishedCountOneBased(rc) == rc + 1
PublishedCount(rc) == rc

\* loop(): lastSendTime = rtc.getMinutes(), read again after the reading
MarkerFromGate(gateMin, now) == gateMin
MarkerMinute(gateMin, now) == Minutes(now)

\* readingCount++  (an unsigned long of 32 bits: MaxReadings keeps the model
\* far below the wrap at 2^32, which the counter's contract leaves aside)
KeepReadingCount(rc) == rc
NextReadingCount(rc) == rc + 1

\* if (startTime == 0) startTime = rtc.getEpoch();
StartTimeAlwaysWritten(st) == TRUE
StartTimeTestInverted(st) == st # 0
StartTimeUnset(st) == st = 0

\* } while (epoch == 0);
TimeNeverRetried(e) == FALSE
TimeFetchTestInverted(e) == e # 0
TimeFetchFailed(e) == e = 0

\* setup(): beginWill / print / endWill
WillForgotten == NoWill
WillAtSetup == WillMessage

\* connectToBroker(): where the thread goes after mqttClient.connect()
AfterBrokerAttemptFallThrough(ok) == IF ok THEN "subscribe" ELSE "gate"
AfterBrokerAttemptRetry(ok) == IF ok THEN "subscribe" ELSE "connect"
AfterBrokerAttempt(ok) == IF ok THEN "subscribe" ELSE "loop"

\* loop(): the reading is the else branch of the broker check, so the
\* iteration ends when connectToBroker returns
AfterSubscribeProceed == "gate"
AfterSubscribe == "loop"

\* the environment may fail once more; the failures left after it did
CanFail(f) == f # 0
AfterFault(f) == IF f > 0 THEN f - 1 ELSE f

(***************************************************************************)
(* History records                                                         *)
(***************************************************************************)
FreshIteration(rc, lst) ==
    [broker |-> "none", attempts |-> 0, res |-> "none", subs |-> 0,
     gate |-> "none", testMin |-> 0, gateMin |-> 0, pubs |-> 0, rc0 |-> rc,
     lst0 |-> lst,
     topics |-> <<>>, allUp |-> TRUE, markMin |-> 0]

FreshNet == [writes |-> 0, written |-> 0, ret |-> "none"]

FreshHist == [cycles |-> 0, attempted |-> FALSE, firstEpoch |-> 0,
              startWrites |-> 0, prevRes |-> "none", delivered |-> 0,
              bootLink |-> FALSE]

\* no message handed to mqttClient yet
NoMsg == [topic |-> "", val |-> "", at |-> 0]

Scenario == <<0, 0, 1, 2>>
FreshScen == [n |-> 0, ok |-> TRUE, trig |-> {}]

\* one more gate observation m (both reads of the gate gave m) with decision
\* pass
ScenObserve(s, m, pass) ==
    IF s.ok /\ s.n < Len(Scenario) /\ Scenario[s.n + 1] = m
    THEN [n |-> s.n + 1, ok |-> TRUE,
          trig |-> IF pass THEN s.trig \cup {s.n + 1} ELSE s.trig]
    ELSE [s EXCEPT !.ok = FALSE]

\* the marker update of a reading: the iteration observed one minute only
\* if the clock minute is still the one the gate saw
ScenMark(s, gateMin, markMin) ==
    IF gateMin = markMin THEN s ELSE [s EXCEPT !.ok = FALSE]

(***************************************************************************)
(* Initial state: the globals as initialised, before setup()               *)
(***************************************************************************)
Init ==
    /\ pc = "setup"
    /\ wifiUp \in BOOLEAN
    /\ mqttUp = FALSE
    /\ will = NoWill
    /\ clock = RtcBootEpoch
    /\ epoch = 0
    /\ startTime = 0
    /\ lastSendTime = 0
    /\ sendInterval = SendIntervalInit
    /\ readingCount = 0
    /\ pubIdx = 0
    /\ absPos = FALSE
    /\ it = FreshIteration(0, 0)
    /\ net = FreshNet
    /\ hist = [FreshHist EXCEPT !.bootLink = wifiUp]
    /\ scen = FreshScen
    /\ mac \in RunMacs
    /\ addressString = ""
    /\ sens = NoReading
    /\ lastMsg = NoMsg
    /\ faultsLeft = Unbounded

(***************************************************************************)
(* setup()                                                                 *)
(***************************************************************************)
Setup ==
    /\ pc = "setup"
    /\ addressString' = AddressLoop(mac, MacLen - 1, addressString)
    /\ will' = WillAtSetup
    /\ pc' = "loop"
    /\ UNCHANGED <<wifiUp, mqttUp, clock, epoch, startTime, lastSendTime,
                   sendInterval, readingCount, pubIdx, it, net, hist, scen,
                   absPos, mac, sens, lastMsg,
                   faultsLeft>>

(***************************************************************************)
(* loop(): if (WiFi.status() != WL_CONNECTED) connectToNetwork();          *)
(***************************************************************************)
LoopWifiCheck ==
    /\ pc = "loop"
    /\ readingCount < MaxReadings
    /\ it' = FreshIteration(readingCount, lastSendTime)
    /\ hist' = [hist EXCEPT !.prevRes = it.res]
    /\ IF ~wifiUp
       THEN /\ pc' = "netAssoc"
            /\ net' = FreshNet
       ELSE /\ pc' = "brokerCheck"
            /\ net' = net
    /\ UNCHANGED <<wifiUp, mqttUp, will, clock, epoch, startTime, lastSendTime,
                   sendInterval, readingCount, pubIdx, scen,
                   absPos, mac, addressString, sens, lastMsg,
                   faultsLeft>>

(***************************************************************************)
(* connectToNetwork()                                                      *)
(***************************************************************************)
\* while (WiFi.status() != WL_CONNECTED)
NetAssocCheck ==
    /\ pc = "netAssoc"
    /\ pc' = IF wifiUp THEN "netTime" ELSE "netBegin"
    /\ UNCHANGED <<wifiUp, mqttUp, will, clock, epoch, startTime, lastSendTime,
                   sendInterval, readingCount, pubIdx, it, net, hist, scen,
                   absPos, mac, addressString, sens, lastMsg,
                   faultsLeft>>

\* WiFi.begin(SECRET_SSID, SECRET_PASS); delay(2000);
NetBegin ==
    /\ pc = "netBegin"
    /\ \E ok \in BOOLEAN :
          /\ ok \/ CanFail(faultsLeft)
          /\ wifiUp' = ok
          /\ faultsLeft' = IF ok THEN faultsLeft ELSE AfterFault(faultsLeft)
    /\ pc' = "netAssoc"
    /\ UNCHANGED <<mqttUp, will, clock, epoch, startTime, lastSendTime,
                   sendInterval, readingCount, pubIdx, it, net, hist, scen,
                   absPos, mac, addressString, sens, lastMsg>>

\* epoch = WiFi.getTime(); delay(2000);  (0 when the fetch fails; what the
\* library delivers over a lost link is not fixed by the sketch)
NetGetTime ==
    /\ pc = "netTime"
    /\ \E e \in NetEpochs \cup {0} :
          /\ e # 0 \/ CanFail(faultsLeft)
          /\ epoch' = e
          /\ faultsLeft' = IF e # 0 THEN faultsLeft ELSE AfterFault(faultsLeft)
    /\ pc' = "netTimeCheck"
    /\ UNCHANGED <<wifiUp, mqttUp, will, clock, startTime, lastSendTime,
                   sendInterval, readingCount, pubIdx, it, net, hist, scen,
                   absPos, mac, addressString, sens, lastMsg>>

\* } while (epoch == 0);
NetTimeCheck ==
    /\ pc = "netTimeCheck"
    /\ pc' = IF TimeFetchFailed(epoch) THEN "netTime" ELSE "netSet"
    /\ UNCHANGED <<wifiUp, mqttUp, will, clock, epoch, startTime, lastSendTime,
                   sendInterval, readingCount, pubIdx, it, net, hist, scen,
                   absPos, mac, addressString, sens, lastMsg,
                   faultsLeft>>

\* rtc.setEpoch(epoch);
NetSetClock ==
    /\ pc = "netSet"
    /\ clock' = epoch
    /\ net' = [net EXCEPT !.writes = @ + 1, !.written = epoch]
    /\ pc' = "netStart"
    /\ UNCHANGED <<wifiUp, mqttUp, will, epoch, startTime, lastSendTime,
                   sendInterval, readingCount, pubIdx, it, hist, scen,
                   absPos, mac, addressString, sens, lastMsg,
                   faultsLeft>>

\* if (startTime == 0) startTime = rtc.getEpoch();
NetStartTime ==
    /\ pc = "netStart"
    /\ IF StartTimeUnset(startTime)
       THEN /\ startTime' = clock
            /\ hist' = [hist EXCEPT
                          !.startWrites = @ + 1,
                          !.firstEpoch = IF @ = 0 THEN net.written ELSE @]
       ELSE /\ startTime' = startTime
            /\ hist' = [hist EXCEPT
                          !.firstEpoch = IF @ = 0 THEN net.written ELSE @]
    /\ pc' = "netInfo"
    /\ UNCHANGED <<wifiUp, mqttUp, will, clock, epoch, lastSendTime,
                   sendInterval, readingCount, pubIdx, it, net, scen,
                   absPos, mac, addressString, sens, lastMsg,
                   faultsLeft>>

\* WiFi.localIP(), WiFi.RSSI(), and the return to loop()
NetReturn ==
    /\ pc = "netInfo"
    /\ net' = [net EXCEPT !.ret = IF wifiUp THEN "up" ELSE "down"]
    /\ epoch' = 0
    /\ pc' = "brokerCheck"
    /\ UNCHANGED <<wifiUp, mqttUp, will, clock, startTime, lastSendTime,
                   sendInterval, readingCount, pubIdx, it, hist, scen,
                   absPos, mac, addressString, sens, lastMsg,
                   faultsLeft>>

(***************************************************************************)
(* loop(): if (!mqttClient.connected()) connectToBroker(); else { ... }    *)
(***************************************************************************)
LoopBrokerCheck ==
    /\ pc = "brokerCheck"
    /\ it' = [it EXCEPT !.broker = IF mqttUp THEN "up" ELSE "down"]
    /\ pc' = IF ~mqttUp THEN "connect" ELSE "gate"
    /\ UNCHANGED <<wifiUp, mqttUp, will, clock, epoch, startTime, lastSendTime,
                   sendInterval, readingCount, pubIdx, net, hist, scen,
                   absPos, mac, addressString, sens, lastMsg,
                   faultsLeft>>

\* connectToBroker(): if (!mqttClient.connect(broker, port)) return false;
ConnectToBroker ==
    /\ pc = "connect"
    /\ \E ok \in (IF wifiUp THEN BOOLEAN ELSE {FALSE}) :
          /\ ok \/ ~wifiUp \/ CanFail(faultsLeft)
          /\ faultsLeft' = IF ok \/ ~wifiUp THEN faultsLeft
                           ELSE AfterFault(faultsLeft)
          /\ mqttUp' = ok
          /\ it' = [it EXCEPT !.attempts = @ + 1,
                              !.res = IF ok THEN "ok" ELSE "fail"]
          /\ pc' = AfterBrokerAttempt(ok)
    /\ hist' = [hist EXCEPT !.attempted = TRUE]
    /\ UNCHANGED <<wifiUp, will, clock, epoch, startTime, lastSendTime,
                   sendInterval, readingCount, pubIdx, net, scen,
                   absPos, mac, addressString, sens, lastMsg>>

\* connectToBroker(): mqttClient.subscribe(topic); return true;
Subscribe ==
    /\ pc = "subscribe"
    /\ it' = [it EXCEPT !.subs = @ + 1]
    /\ pc' = AfterSubscribe
    /\ UNCHANGED <<wifiUp, mqttUp, will, clock, epoch, startTime, lastSendTime,
                   sendInterval, readingCount, pubIdx, net, hist, scen,
                   absPos, mac, addressString, sens, lastMsg,
                   faultsLeft>>

\* if (abs(rtc.getMinutes() - lastSendTime) >= sendInterval): the first
\* rtc.getMinutes() of the macro, for its test (x)>0
LoopGateTest ==
    /\ pc = "gate"
    /\ absPos' = AbsTest(Minutes(clock) - lastSendTime)
    /\ it' = [it EXCEPT !.testMin = Minutes(clock)]
    /\ pc' = "gateAbs"
    /\ UNCHANGED <<wifiUp, mqttUp, will, clock, epoch, startTime, lastSendTime,
                   sendInterval, readingCount, pubIdx, net, hist, scen,
                   mac, addressString, sens, lastMsg,
                   faultsLeft>>

\* the second rtc.getMinutes() of the macro, for its value, and the
\* comparison with sendInterval
LoopGate ==
    /\ pc = "gateAbs"
    /\ LET m == Minutes(clock)
           pass == IntervalElapsed(absPos, m, lastSendTime, sendInterval)
       IN /\ it' = [it EXCEPT !.gate = IF pass THEN "pass" ELSE "skip",
                              !.gateMin = m]
          /\ scen' = IF it.testMin = m THEN ScenObserve(scen, m, pass)
                     ELSE [scen EXCEPT !.ok = FALSE]
          /\ pc' = IF pass THEN "read" ELSE "loop"
    /\ absPos' = FALSE
    /\ UNCHANGED <<wifiUp, mqttUp, will, clock, epoch, startTime, lastSendTime,
                   sendInterval, readingCount, pubIdx, net, hist,
                   mac, addressString, sens, lastMsg,
                   faultsLeft>>

\* readSensor(): tcs.getRawData, calculateColorTemperature_dn40, calculateLux
ReadSensor ==
    /\ pc = "read"
    /\ sens' \in SensorReadings
    /\ pubIdx' = 1
    /\ pc' = "send"
    /\ UNCHANGED <<wifiUp, mqttUp, will, clock, epoch, startTime, lastSendTime,
                   sendInterval, readingCount, it, net, hist, scen,
                   absPos, mac, addressString, lastMsg,
                   faultsLeft>>

\* readSensor(): the value of its i-th sendMessage call
FieldValue(i) ==
    CASE i = 1 -> addressString
      [] i = 2 -> Location
      [] i = 3 -> StringU32(U32(clock))
      [] i = 4 -> StringU32(U32(sens.lux))
      [] i = 5 -> StringU32(U32(sens.ct))
      [] i = 6 -> StringU32(UptimeOf(clock, startTime))
      [] i = 7 -> StringU32(U32(PublishedCount(readingCount)))

\* readSensor(): one sendMessage(subTopic, val), that is beginMessage, print
\* and endMessage; mqttClient sends it if the broker connection is up
SendMessage ==
    /\ pc = "send"
    /\ LET msg == [topic |-> TopicOf(FieldNames[pubIdx]),
                   val |-> FieldValue(pubIdx),
                   at |-> IF FieldNames[pubIdx] = "uptime" THEN clock ELSE 0]
           allUp == it.allUp /\ mqttUp
       IN /\ lastMsg' = msg
          /\ it' = [it EXCEPT !.pubs = @ + 1,
                              !.topics = Append(@, msg.topic),
                              !.allUp = allUp]
          /\ IF pubIdx = NumFields
             THEN /\ pubIdx' = 0
                  /\ sens' = NoReading
                  /\ pc' = "count"
                  /\ hist' = [hist EXCEPT
                                !.cycles = @ + 1,
                                !.delivered = IF allUp THEN @ + 1 ELSE @]
             ELSE /\ pubIdx' = pubIdx + 1
                  /\ sens' = sens
                  /\ pc' = "send"
                  /\ hist' = hist
    /\ UNCHANGED <<wifiUp, mqttUp, will, clock, epoch, startTime, lastSendTime,
                   sendInterval, readingCount, net, scen,
                   absPos, mac, addressString,
                   faultsLeft>>

\* readingCount++; lastSendTime = rtc.getMinutes();
LoopFinishReading ==
    /\ pc = "count"
    /\ readingCount' = NextReadingCount(readingCount)
    /\ lastSendTime' = MarkerMinute(it.gateMin, clock)
    /\ it' = [it EXCEPT !.markMin = Minutes(clock)]
    /\ scen' = ScenMark(scen, it.gateMin, Minutes(clock))
    /\ pc' = "loop"
    /\ UNCHANGED <<wifiUp, mqttUp, will, clock, epoch, startTime, sendInterval,
                   pubIdx, net, hist,
                   absPos, mac, addressString, sens, lastMsg,
                   faultsLeft>>

(***************************************************************************)
(* The environment                                                         *)
(***************************************************************************)
\* the radio link is lost; the broker connection rides on it
LinkDrop ==
    /\ pc # "setup"
    /\ wifiUp
    /\ CanFail(faultsLeft)
    /\ faultsLeft' = AfterFault(faultsLeft)
    /\ wifiUp' = FALSE
    /\ mqttUp' = FALSE
    /\ UNCHANGED <<pc, will, clock, epoch, startTime, lastSendTime,
                   sendInterval, readingCount, pubIdx, it, net, hist, scen,
                   absPos, mac, addressString, sens, lastMsg>>

\* the broker connection is lost while the link stays
BrokerDrop ==
    /\ pc # "setup"
    /\ mqttUp
    /\ CanFail(faultsLeft)
    /\ faultsLeft' = AfterFault(faultsLeft)
    /\ mqttUp' = FALSE
    /\ UNCHANGED <<pc, wifiUp, will, clock, epoch, startTime, lastSendTime,
                   sendInterval, readingCount, pubIdx, it, net, hist, scen,
                   absPos, mac, addressString, sens, lastMsg>>

\* the realtime clock runs
Tick ==
    /\ pc # "setup"
    /\ \E d \in TickSecs :
          /\ clock + d <= MaxEpoch
          /\ clock' = clock + d
    /\ UNCHANGED <<pc, wifiUp, mqttUp, will, epoch, startTime, lastSendTime,
                   sendInterval, readingCount, pubIdx, it, net, hist, scen,
                   absPos, mac, addressString, sens, lastMsg,
                   faultsLeft>>

Next ==
    \/ Setup
    \/ LoopWifiCheck
    \/ NetAssocCheck
    \/ NetBegin
    \/ NetGetTime
    \/ NetTimeCheck
    \/ NetSetClock
    \/ NetStartTime
    \/ NetReturn
    \/ LoopBrokerCheck
    \/ ConnectToBroker
    \/ Subscribe
    \/ LoopGateTest
    \/ LoopGate
    \/ ReadSensor
    \/ SendMessage
    \/ LoopFinishReading
    \/ LinkDrop
    \/ BrokerDrop
    \/ Tick

Spec == Init /\ [][Next]_vars

(***************************************************************************)
(* The sketch run for ever, in an environment that fails finitely often    *)
(* after the first reading cycle: at most MaxFaults link drops, broker      *)
(* drops, failed association attempts, failed time fetches and failed      *)
(* broker connection attempts (a connection attempt over a lost link fails *)
(* without counting).  The thread always takes its next step and the clock *)
(* runs.                                                                   *)
(***************************************************************************)
ProgramStep ==
    \/ Setup
    \/ LoopWifiCheck
    \/ NetAssocCheck
    \/ NetBegin
    \/ NetGetTime
    \/ NetTimeCheck
    \/ NetSetClock
    \/ NetStartTime
    \/ NetReturn
    \/ LoopBrokerCheck
    \/ ConnectToBroker
    \/ Subscribe
    \/ LoopGateTest
    \/ LoopGate
    \/ ReadSensor
    \/ SendMessage
    \/ LoopFinishReading

InitLive ==
    /\ pc = "setup"
    /\ wifiUp \in BOOLEAN
    /\ mqttUp = FALSE
    /\ will = NoWill
    /\ clock = RtcBootEpoch
    /\ epoch = 0
    /\ startTime = 0
    /\ lastSendTime = 0
    /\ sendInterval = SendIntervalInit
    /\ readingCount = 0
    /\ pubIdx = 0
    /\ absPos = FALSE
    /\ it = FreshIteration(0, 0)
    /\ net = FreshNet
    /\ hist = [FreshHist EXCEPT !.bootLink = wifiUp]
    /\ scen = FreshScen
    /\ mac \in RunMacs
    /\ addressString = ""
    /\ sens = NoReading
    /\ lastMsg = NoMsg
    /\ faultsLeft = MaxFaults

NextLive == Next /\ (faultsLeft' # faultsLeft => hist.cycles >= 1)

SpecLive ==
    InitLive /\ [][NextLive]_vars /\ WF_vars(ProgramStep) /\ WF_vars(Tick)

(***************************************************************************)
(* The sketch run for ever with a time fetch that never fails over an      *)
(* associated link: association attempts and broker connection attempts    *)
(* succeed if tried again and again, link and broker connection drop only  *)
(* finitely often                                                          *)
(***************************************************************************)
NextSync == Next /\ ((NetGetTime /\ wifiUp) => epoch' # 0)

FairnessSync ==
    /\ WF_vars(ProgramStep)
    /\ WF_vars(Tick)
    /\ SF_vars(NetBegin /\ wifiUp')
    /\ SF_vars(ConnectToBroker /\ mqttUp')
    /\ <>[][~(LinkDrop \/ BrokerDrop)]_vars

SpecLiveSync == Init /\ [][NextSync]_vars /\ FairnessSync

(***************************************************************************)
(* The interval gate on its own, for the send interval of the sketch: a    *)
(* device that booted with the link associated, at the gate of an          *)
(* iteration that found the broker connected, every last-send minute and   *)
(* every number of minutes since; the clock stands still between the two   *)
(* reads of the gate                                                       *)
(***************************************************************************)
InitGate ==
    /\ pc = "gate"
    /\ wifiUp = TRUE
    /\ mqttUp = TRUE
    /\ will = WillAtSetup
    /\ lastSendTime \in 0 .. MinutesPerHour - 1
    /\ clock \in {RtcBootEpoch + (lastSendTime + d) * SecondsPerMinute :
                      d \in 0 .. MinutesPerHour - 1}
    /\ epoch = 0
    /\ startTime = 0
    /\ sendInterval = SendIntervalInit
    /\ readingCount = (IF lastSendTime = 0 THEN 0 ELSE 1)
    /\ pubIdx = 0
    /\ absPos = FALSE
    /\ it = [FreshIteration(readingCount, lastSendTime) EXCEPT !.broker = "up"]
    /\ net = FreshNet
    /\ hist = [FreshHist EXCEPT
                 !.bootLink = TRUE,
                 !.attempted = TRUE,
                 !.cycles = readingCount,
                 !.delivered = readingCount,
                 !.prevRes = IF readingCount = 0 THEN "ok" ELSE "none"]
    /\ scen = (IF readingCount = 0 THEN FreshScen
               ELSE [FreshScen EXCEPT !.ok = FALSE])
    /\ mac \in RunMacs
    /\ addressString = AddressLoop(mac, MacLen - 1, "")
    /\ sens = NoReading
    /\ lastMsg = (IF readingCount = 0 THEN NoMsg
                  ELSE [topic |-> TopicOf("readingCount"), val |-> "0",
                        at |-> 0])
    /\ faultsLeft = Unbounded

NextGate ==
    \/ LoopGateTest
    \/ LoopGate

SpecGate == InitGate /\ [][NextGate]_vars

(***************************************************************************)
(* The device identity: setup() for every hardware address over MacBytes,  *)
(* and the whole run of the sketch for the addresses in RunMacs            *)
(***************************************************************************)
InitId ==
    /\ pc = "setup"
    /\ wifiUp \in BOOLEAN
    /\ mqttUp = FALSE
    /\ will = NoWill
    /\ clock = RtcBootEpoch
    /\ epoch = 0
    /\ startTime = 0
    /\ lastSendTime = 0
    /\ sendInterval = SendIntervalInit
    /\ readingCount = 0
    /\ pubIdx = 0
    /\ absPos = FALSE
    /\ it = FreshIteration(0, 0)
    /\ net = FreshNet
    /\ hist = [FreshHist EXCEPT !.bootLink = wifiUp]
    /\ scen = FreshScen
    /\ mac \in AllMacs \cup RunMacs
    /\ addressString = ""
    /\ sens = NoReading
    /\ lastMsg = NoMsg
    /\ faultsLeft = Unbounded

NextId ==
    \/ Setup
    \/ (mac \in RunMacs /\ Next)

SpecId == InitId /\ [][NextId]_vars

(***************************************************************************)
(* Properties                                                              *)
(***************************************************************************)

\* C1: in a loop iteration whose broker connection attempt failed,
\* readingCount is not incremented, lastSendTime is not changed, the interval
\* gate is not evaluated and no sendMessage is made.
FailedConnectLeavesReadingAlone ==
    it.res = "fail" =>
        /\ readingCount = it.rc0
        /\ lastSendTime = it.lst0
        /\ it.gate = "none"
        /\ it.pubs = 0

\* C1 witness: an iteration that found the client not connected, failed to
\* connect and has ended, after readings were already taken.
FailedConnectIterationEnded ==
    /\ pc = "loop"
    /\ it.broker = "down"
    /\ it.res = "fail"
    /\ readingCount >= 1

\* C2 as stated: an iteration whose connection attempt succeeded goes on to
\* the interval check and, if the interval has elapsed, reads and publishes.
ConnectedIterationReachesGate ==
    (pc = "loop" /\ it.res = "ok") =>
        /\ it.gate # "none"
        /\ (Abs(it.gateMin - it.lst0) >= sendInterval
              => it.pubs = NumFields)

\* C2 amended: an iteration whose connection attempt succeeded ends after the
\* subscribe, without interval check, sensor read or publication; the gate is
\* evaluated only by an iteration that found the client already connected.
ConnectedIterationEndsAfterSubscribe ==
    /\ it.res = "ok" =>
          /\ it.gate = "none"
          /\ it.pubs = 0
          /\ readingCount = it.rc0
          /\ lastSendTime = it.lst0
          /\ pc \in {"subscribe", "loop"}
    /\ it.gate # "none" => (it.broker = "up" /\ it.res = "none")

\* C2 witness: an iteration that connected and subscribed has ended while the
\* send interval had elapsed.
ConnectedIterationEnded ==
    /\ pc = "loop"
    /\ it.res = "ok"
    /\ it.subs = 1
    /\ Abs(Minutes(clock) - lastSendTime) >= sendInterval

\* C3 as stated: startTime is written exactly once, by the first time
\* synchronisation and to the epoch that synchronisation wrote into the
\* clock, and once it is nonzero no step changes it, whatever later
\* synchronisations write.
StartTimeSetOnce ==
    /\ [](/\ hist.startWrites <= 1
          /\ hist.firstEpoch = 0 => (startTime = 0 /\ hist.startWrites = 0)
          /\ hist.firstEpoch # 0 =>
                (startTime = hist.firstEpoch /\ hist.startWrites = 1))
    /\ [][startTime # 0 => startTime' = startTime]_vars

\* C3 amended: startTime is written exactly once, by the first time
\* synchronisation, to what the clock shows when it is read back after that
\* synchronisation set it: the first epoch, or later by the time the clock
\* ran between the two accesses.  Once it is nonzero no step changes it,
\* whatever later synchronisations write.
StartTimeSetOnceFromClock ==
    /\ [](/\ hist.startWrites <= 1
          /\ hist.firstEpoch = 0 => (startTime = 0 /\ hist.startWrites = 0)
          /\ hist.firstEpoch # 0 =>
                (startTime >= hist.firstEpoch /\ hist.startWrites = 1))
    /\ [][startTime' # startTime =>
            /\ pc = "netStart"
            /\ startTime = 0
            /\ startTime' = clock
            /\ clock >= net.written]_vars
    /\ [][startTime # 0 => startTime' = startTime]_vars

\* C3 witness: the clock ran between the first synchronisation and the read
\* that set startTime, and a later synchronisation has written another epoch
\* into the clock while startTime kept its value.
ResyncedAfterLateStart ==
    /\ pc = "netInfo"
    /\ hist.firstEpoch # 0
    /\ startTime > hist.firstEpoch
    /\ hist.startWrites = 1
    /\ net.written # hist.firstEpoch
    /\ clock = net.written

\* C4: between loop iterations readingCount equals the number of completed
\* reading cycles (within an iteration it lags the seventh publish by the
\* increment), and no step decreases readingCount.
ReadingCountCountsCycles ==
    /\ [](/\ pc = "loop" => readingCount = hist.cycles
          /\ readingCount <= hist.cycles
          /\ hist.cycles <= readingCount + 1
          /\ (pc = "loop" /\ it.gate = "pass") => it.pubs = NumFields)
    /\ [][readingCount' >= readingCount]_vars

\* C4 witness: two reading cycles completed, the second one right after a
\* reconnection to the broker.
TwoCyclesCounted ==
    /\ pc = "loop"
    /\ hist.cycles = 2
    /\ readingCount = 2
    /\ it.gate = "pass"
    /\ hist.prevRes = "ok"

\* C5 as stated: an iteration that found the broker connected evaluates the
\* gate; the reading is triggered exactly if |minute - lastSendTime| >=
\* sendInterval, the minute being the clock minute of the iteration (a
\* decision is taken as right if it is right for one of the two minutes the
\* gate read); an iteration whose gate fails publishes nothing and leaves
\* readingCount and lastSendTime alone.  With sendInterval 1, lastSendTime 0
\* at boot and the iterations observing the minutes 0, 0, 1, 2 (every prefix
\* of it), the readings are triggered at the third and fourth observation
\* only.
GateTriggersIffIntervalElapsed ==
    /\ it.gate # "none" =>
          /\ it.broker = "up"
          /\ it.gate = "pass" =>
                \E m \in {it.testMin, it.gateMin} :
                    Abs(m - it.lst0) >= sendInterval
          /\ it.gate = "skip" =>
                \E m \in {it.testMin, it.gateMin} :
                    Abs(m - it.lst0) < sendInterval
    /\ (pc = "loop" /\ it.broker = "up") => it.gate # "none"
    /\ it.gate = "skip" =>
          /\ it.pubs = 0
          /\ readingCount = it.rc0
          /\ lastSendTime = it.lst0
    /\ (it.gate = "pass" /\ pc = "loop") =>
          /\ it.pubs = NumFields
          /\ readingCount = it.rc0 + 1
    /\ scen.ok => scen.trig = {i \in 1 .. scen.n : i >= 3}

ReturnsAssociated == net.ret # "down"

\* C8: once a broker connection attempt was made the will is the one setup
\* registered, and no step after the first attempt changes the will.
WillRegisteredBeforeFirstAttempt ==
    /\ [](hist.attempted => will = WillMessage)
    /\ [][hist.attempted => will' = will]_vars

\* C8 witness: a reconnection to the broker after readings were published
\* over an earlier connection.
ReconnectedWithWill ==
    /\ hist.attempted
    /\ readingCount >= 1
    /\ it.res = "ok"
    /\ hist.prevRes = "fail"
    /\ will = WillMessage

\* C9: a connectToNetwork call that has returned wrote the clock exactly
\* once, with a nonzero epoch fetched from the network; every other change of
\* the clock is the running of the clock itself.
ClockSetOnlyByNetworkSync ==
    /\ [](net.ret # "none" =>
            /\ net.writes = 1
            /\ net.written # 0
            /\ net.written \in NetEpochs)
    /\ [][clock' # clock =>
            \/ (pc = "netSet" /\ clock' = epoch /\ epoch # 0)
            \/ (pc' = pc /\ clock' - clock \in TickSecs)]_vars

\* C9 witness: a reconnection to the network, after readings were taken, has
\* returned with the clock set back to an earlier epoch.
ReconnectionReturned ==
    /\ pc = "brokerCheck"
    /\ net.ret # "none"
    /\ readingCount >= 1
    /\ net.written < startTime
    /\ clock = net.written

\* C10: an iteration makes one broker connection attempt if its broker check
\* found the client not connected and none otherwise; a failed attempt ends
\* the iteration without retry and without subscribe; a successful attempt is
\* followed by one subscribe.
OneBrokerAttemptPerIteration ==
    /\ it.attempts <= 1
    /\ it.subs <= 1
    /\ it.broker \in {"none", "up"} => (it.attempts = 0 /\ it.subs = 0)
    /\ it.broker = "down" => (it.attempts = IF pc = "connect" THEN 0 ELSE 1)
    /\ it.res = "fail" => (it.subs = 0 /\ pc = "loop")
    /\ it.res = "ok" => (it.subs = IF pc = "subscribe" THEN 0 ELSE 1)

\* C10 witness: an iteration whose attempt failed was followed by an
\* iteration that tried again, connected and subscribed.
RetriedByNextIteration ==
    /\ pc = "loop"
    /\ hist.prevRes = "fail"
    /\ it.broker = "down"
    /\ it.attempts = 1
    /\ it.res = "ok"
    /\ it.subs = 1

\* C11: the publishes of a reading cycle go, one per step and in this order,
\* to light-readings/uid, /location, /timeStamp, /lux, /ct, /uptime and
\* /readingCount; a completed cycle has made exactly these seven.
CycleTopics ==
    <<"light-readings/uid", "light-readings/location",
      "light-readings/timeStamp", "light-readings/lux", "light-readings/ct",
      "light-readings/uptime", "light-readings/readingCount">>

SevenPublishesInOrder ==
    /\ [](/\ it.pubs <= NumFields
          /\ it.topics = SubSeq(CycleTopics, 1, it.pubs)
          /\ pc = "send" => it.pubs = pubIdx - 1
          /\ (pc = "count" \/ (pc = "loop" /\ it.gate = "pass"))
                => it.pubs = NumFields
          /\ it.gate # "pass" => it.pubs = 0)
    /\ [][it'.pubs # it.pubs =>
            \/ it'.pubs = 0
            \/ /\ it'.pubs = it.pubs + 1
               /\ lastMsg'.topic = CycleTopics[it'.pubs]]_vars

\* C11 witness: a reading cycle has made its seventh publish.
CyclePublished ==
    /\ pc = "count"
    /\ it.pubs = NumFields
    /\ Len(it.topics) = NumFields
    /\ lastMsg.topic = "light-readings/readingCount"

\* C14: for every hardware address, the address string built by setup has 12
\* characters, the two hexadecimal digits of mac[5], mac[4], .. mac[0] in this
\* order; no step after setup changes it; every uid published is that string.
TwoHexDigits(b) == HexDigit[(b \div 16) + 1] \o HexDigit[(b % 16) + 1]

AddressStringTwelveHex ==
    /\ [](pc # "setup" =>
            /\ Len(addressString) = 12
            /\ \A i \in 0 .. 5 :
                  SubSeq(addressString, 2 * (5 - i) + 1, 2 * (5 - i) + 2)
                     = TwoHexDigits(mac[i]))
    /\ [](lastMsg.topic = "light-readings/uid" => lastMsg.val = addressString)
    /\ [][pc # "setup" => addressString' = addressString]_vars
    /\ [][mac' = mac]_vars

\* C14 witness: the uid was published after a reconnection to the network,
\* for an address with bytes below 16.
UidPublishedAfterReconnect ==
    /\ lastMsg.topic = "light-readings/uid"
    /\ lastMsg.val = "09abff100f00"
    /\ hist.cycles = 1
    /\ net.ret # "none"
    /\ net.written # hist.firstEpoch

\* C15 as stated: between loop iterations readingCount is the number of
\* reading cycles whose seven messages were all handed to a broker connection
\* that was up.
ReadingCountCountsDelivered ==
    pc = "loop" => readingCount = hist.delivered

\* C16 as stated: after a reading cycle lastSendTime is the minute that passed
\* the interval gate of that iteration.
MarkerIsGateMinute ==
    (pc = "loop" /\ it.gate = "pass") => lastSendTime = it.gateMin

\* C16 amended: after a reading cycle lastSendTime is the clock minute read by
\* the marker update, after the seven publishes; only that update changes
\* lastSendTime.
MarkerIsMinuteAtUpdate ==
    /\ []((pc = "loop" /\ it.gate = "pass") => lastSendTime = it.markMin)
    /\ [][lastSendTime' # lastSendTime =>
            (pc = "count" /\ lastSendTime' = Minutes(clock))]_vars

\* C16 witness: the clock went on to the next minute between the gate and the
\* marker update of a reading cycle.
MinuteMovedDuringCycle ==
    /\ pc = "loop"
    /\ it.gate = "pass"
    /\ it.markMin # it.gateMin
    /\ lastSendTime = it.markMin

\* C17: with the link not associated at boot, whenever the current iteration
\* has published, startTime is nonzero and the last connectToNetwork call has
\* returned, having set the clock.
NoPublishBeforeSync ==
    (~hist.bootLink /\ it.pubs > 0) =>
        /\ startTime # 0
        /\ hist.firstEpoch # 0
        /\ net.ret # "none"
        /\ net.writes = 1

\* C17 witness: a device that booted without link is publishing.
PublishingAfterSync ==
    /\ ~hist.bootLink
    /\ pc = "send"
    /\ it.pubs > 0
    /\ startTime \in NetEpochs

\* C18 as stated: when the uptime is published the clock is not before
\* startTime, and the value sent is the seconds between the two.
UptimeNeverUnderflows ==
    lastMsg.topic = "light-readings/uptime" =>
        /\ lastMsg.at >= startTime
        /\ lastMsg.val = StringU32(U32(lastMsg.at - startTime))

\* C19: the readingCount published by the k-th reading cycle since boot is
\* k - 1.
PublishedCountIsCyclesBefore ==
    lastMsg.topic = "light-readings/readingCount" =>
        /\ hist.cycles >= 1
        /\ lastMsg.val = StringU32(U32(hist.cycles - 1))
        /\ readingCount \in {hist.cycles - 1, hist.cycles}

\* C19 witness: the second reading cycle, made after a reconnection to the
\* network, has published readingCount 1.
SecondCyclePublishedOne ==
    /\ lastMsg.topic = "light-readings/readingCount"
    /\ lastMsg.val = "1"
    /\ hist.cycles = 2
    /\ net.ret # "none"
    /\ net.written # hist.firstEpoch

\* C12: in a run in which the environment fails finitely often after a
\* reading cycle, a reading cycle always comes again.  Within the bounds of
\* the model: from k completed cycles, k < MaxReadings, the next cycle
\* completes, or else the thread stands at the interval gate in the minute
\* of the last send with the clock of the model at its bound.
ReadingsRecur ==
    \A k \in 0 .. MaxReadings - 1 :
        (hist.cycles = k) ~>
            \/ hist.cycles = k + 1
            \/ /\ pc = "gate"
               /\ Minutes(clock) = lastSendTime
               /\ \A d \in TickSecs : clock + d > MaxEpoch

\* C12 witness: the environment has failed MaxFaults times, the link was
\* lost and found again among them, and a second reading cycle is complete.
ReadingAfterFailures ==
    /\ pc = "count"
    /\ faultsLeft = 0
    /\ hist.cycles = 2
    /\ net.ret # "none"
    /\ net.written # hist.firstEpoch

\* C13 as stated: every connectToNetwork call returns.
NetCallReturns == (pc = "netAssoc") ~> (pc = "brokerCheck")

====
